---- MODULE Spec2Model ----
(***************************************************************************)
(* Model of synapse/push/bulk_push_rule_evaluator.py: one                  *)
(* BulkPushRuleEvaluator, built for a room, evaluating one event against   *)
(* the push rules of every user of the room.                               *)
(*                                                                         *)
(* The collaborators (store.are_guests, handler._filter_events_for_clients,*)
(* store.get_state_for_event, PushRuleEvaluatorForEvent.matches) are       *)
(* inputs: their answers are drawn from small sets.  The evaluator is a    *)
(* deterministic predicate: an event_match condition depends on the event  *)
(* only, a contains_display_name condition on the event and the user.      *)
(*                                                                         *)
(* The variables calls and checks are history variables: calls logs every  *)
(* evaluator.matches invocation (what a counting test double would see),   *)
(* checks logs every _condition_checker call with the cache it was given   *)
(* and the value it returned.                                              *)
(***************************************************************************)
EXTENDS Integers, Sequences, FiniteSets, TLC

VARIABLES
    rules_by_user,     \* self.rules_by_user
    pc,                \* position of action_for_event_by_user
    actions_by_user,   \* local of action_for_event_by_user
    users_dict,        \* result of store.are_guests
    filtered_by_user,  \* result of handler._filter_events_for_clients
    evaluator,         \* PushRuleEvaluatorForEvent(event, ...): its answers
    condition_cache,   \* the shared condition cache
    display_names,     \* display names of the event's member state
    todo,              \* users the loop of line 98 has not reached yet
    uid,               \* user of the current iteration of line 98
    ri,                \* index of the current rule of line 105
    calls,             \* history: evaluator.matches invocations
    checks,            \* history: _condition_checker calls
    member_state,      \* result of store.get_state_for_event
    error,             \* the exception the invocation ended with, if any
    io,                \* history: the collaborator calls that have answered
    taken,             \* history: the users in the order line 98 took them
    past,              \* history: the invocations that have ended before
    suspended,         \* the locals of a second invocation that is waiting
    user_ids,          \* _get_rules: the users asked for
    stored             \* _get_rules: answer of store.bulk_get_push_rules

\* the locals of one invocation of action_for_event_by_user, and its history
locals == <<pc, actions_by_user, users_dict, filtered_by_user, evaluator,
            condition_cache, display_names, todo, uid, ri, calls, checks,
            member_state, error, io, taken>>

vars == <<rules_by_user, locals, past, suspended, user_ids, stored>>

-----------------------------------------------------------------------------
(* Bounds and input sets *)

\* longest rule list of a user
MaxRules == 3

Users == {"@u1", "@u2"}

\* Python's None
None == "None"

\* the empty dict
EmptyDict == [k \in {} |-> FALSE]

CondC1 == [kind |-> "event_match", pattern |-> "p1", _id |-> "c1"]
CondC2 == [kind |-> "event_match", pattern |-> "p2", _id |-> "c2"]
CondN  == [kind |-> "contains_display_name"]

Patterns == {"p1", "p2"}

\* The rules users draw from, in priority order.
RulePool ==
    << [conditions |-> <<CondN, CondC2>>, actions |-> <<"dont_notify">>],
       [conditions |-> <<CondC1>>, actions |-> <<"notify">>],
       [conditions |-> <<CondC2>>, actions |-> <<"sound">>,
        enabled |-> FALSE],
       [conditions |-> <<CondC1, CondN>>,
        actions |-> <<"notify", "dont_notify", "sound">>, enabled |-> TRUE] >>

\* The rule lists of a user: rules of the pool, kept in priority order.
RECURSIVE Pick(_, _)
Pick(S, i) ==
    IF i > Len(RulePool) THEN <<>>
    ELSE IF i \in S THEN <<RulePool[i]>> \o Pick(S, i + 1)
    ELSE Pick(S, i + 1)

RuleLists ==
    { Pick(S, 1) : S \in { T \in SUBSET (1..Len(RulePool)) :
                              Cardinality(T) <= MaxRules } }

\* What store.are_guests may answer for the users of the rule sets.
GuestAnswers == { [u \in Users |-> FALSE], [u \in Users |-> u = "@u2"] }

\* The event being evaluated.
Event == "$event"

\* What handler._filter_events_for_clients may answer: for each user the
\* visible events, or no entry for the user.
FilterAnswers(users) ==
    UNION { [D -> {<<>>, <<Event>>}] : D \in SUBSET users }

\* The answers of the PushRuleEvaluatorForEvent built for the event.
Evaluators == [content : [Patterns -> BOOLEAN], personal : [Users -> BOOLEAN]]

\* State snapshots store.get_state_for_event may answer (the values of the
\* mapping).
StateSnapshots ==
    { { [type |-> "m.room.member", state_key |-> "@u1",
         content |-> [displayname |-> "Alice"]],
        [type |-> "m.room.member", state_key |-> "@u2",
         content |-> [membership |-> "join"]] },
      { [type |-> "m.room.member", state_key |-> "@u1",
         content |-> [displayname |-> ""]],
        [type |-> "m.room.topic", state_key |-> "@u2",
         content |-> [displayname |-> "Bob"]] } }

-----------------------------------------------------------------------------
(* _condition_checker, lines 120-137 *)

\* dict.get(key, None)
Get(d, key) == IF key \in DOMAIN d THEN d[key] ELSE None

\* the truth value Python gives a string or None ("if _id:", "if nm")
Truthy(v) == v # None /\ v # ""

\* "res is False" / "res is True" for res = cache.get(_id, None)
CachedIs(cache, _id, b) == _id \in DOMAIN cache /\ cache[_id] = b

\* evaluator.matches(cond, uid, display_name, None)
Matches(ev, cond, user, display_name) ==
    IF cond.kind = "event_match" THEN ev.content[cond.pattern]
    ELSE ev.personal[user]

\* StoreResult without its test of _id: the result is kept whether or not the condition
\* carries an identifier
StoreAlways(cache, _id, res) ==
    [k \in DOMAIN cache \cup {_id} |-> IF k = _id THEN res ELSE cache[k]]

\* StoreResult keeping the opposite of the result
StoreNegated(cache, _id, res) ==
    IF Truthy(_id)
    THEN [k \in DOMAIN cache \cup {_id} |-> IF k = _id THEN ~res ELSE cache[k]]
    ELSE cache

\* StoreResult without its assignment: the result is not kept
StoreNothing(cache, _id, res) == cache

\* "if _id: cache[_id] = res"
StoreResult(cache, _id, res) ==
    IF Truthy(_id)
    THEN [k \in DOMAIN cache \cup {_id} |-> IF k = _id THEN res ELSE cache[k]]
    ELSE cache

\* What the loop does on a cached False: "break" leaves the loop, and the
\* statement after the loop is "return True".
OnCachedFalse(cache, log) == [res |-> TRUE, cache |-> cache, log |-> log]

\* ReturnsOnFalse without its return: a false result does not end the loop
ReturnsNever(res) == FALSE

\* "if res is False: return False"
ReturnsOnFalse(res) == res = FALSE

\* The loop "for cond in conditions" from its i-th condition on; log is the
\* sequence of evaluator invocations made so far.
RECURSIVE CondLoop(_, _, _, _, _, _, _)
CondLoop(ev, conditions, user, display_name, cache, i, log) ==
    IF i > Len(conditions)
    THEN [res |-> TRUE, cache |-> cache, log |-> log]
    ELSE LET cond == conditions[i]
             _id == Get(cond, "_id")
         IN  IF Truthy(_id) /\ CachedIs(cache, _id, FALSE)
             THEN OnCachedFalse(cache, log)
             ELSE IF Truthy(_id) /\ CachedIs(cache, _id, TRUE)
             THEN CondLoop(ev, conditions, user, display_name, cache,
                           i + 1, log)
             ELSE LET res == Matches(ev, cond, user, display_name)
                      cache2 == StoreResult(cache, _id, res)
                      log2 == Append(log, [uid |-> user, ci |-> i,
                                           cond |-> cond,
                                           display_name |-> display_name])
                  IN  IF ReturnsOnFalse(res)
                      THEN [res |-> FALSE, cache |-> cache2, log |-> log2]
                      ELSE CondLoop(ev, conditions, user, display_name,
                                    cache2, i + 1, log2)

_condition_checker(ev, conditions, user, display_name, cache) ==
    CondLoop(ev, conditions, user, display_name, cache, 1, <<>>)

-----------------------------------------------------------------------------
(* action_for_event_by_user, lines 74-117 *)

\* DisplayNamesOf without its test of the type of the event
NamesOfAnyType(snapshot) ==
    LET named == { e \in snapshot : Truthy(Get(e.content, "displayname")) }
    IN  [k \in { e.state_key : e \in named } |->
            (CHOOSE e \in named : e.state_key = k).content.displayname]

\* lines 92-96: the display names of the member state
DisplayNamesOf(snapshot) ==
    LET named == { e \in snapshot :
                     /\ Truthy(Get(e.content, "displayname"))
                     /\ e.type = "m.room.member" }
    IN  [k \in { e.state_key : e \in named } |->
            (CHOOSE e \in named : e.state_key = k).content.displayname]

\* NotVisible without its test: nobody is skipped
NeverSkipped(filtered) == FALSE

\* line 102: "if len(filtered) == 0: continue"
NotVisible(filtered) == Len(filtered) = 0

\* RuleDisabled as "not rule.get('enabled')": a rule without enabled field
\* counts as disabled
DisabledUnlessEnabled(rule) == "enabled" \notin DOMAIN rule \/ ~rule.enabled

\* line 106: "if 'enabled' in rule and not rule['enabled']: continue"
RuleDisabled(rule) == "enabled" \in DOMAIN rule /\ ~rule.enabled

\* FilterActions dropping a leading dont_notify only
DropLeading(actions) ==
    IF actions # <<>> /\ Head(actions) = "dont_notify" THEN Tail(actions)
    ELSE actions

\* line 113: [x for x in rule['actions'] if x != 'dont_notify']
RECURSIVE FilterActions(_)
FilterActions(actions) ==
    IF actions = <<>> THEN <<>>
    ELSE IF Head(actions) # "dont_notify"
    THEN <<Head(actions)>> \o FilterActions(Tail(actions))
    ELSE FilterActions(Tail(actions))

\* lines 114-115: "if actions: actions_by_user[uid] = actions"
Record(by_user, user, actions) ==
    IF actions # <<>>
    THEN [k \in DOMAIN by_user \cup {user} |->
            IF k = user THEN actions ELSE by_user[k]]
    ELSE by_user

\* Subscript as filtered_by_user.get(uid, []): a missing entry reads as no
\* visible event
SubscriptOrEmpty(d, key) ==
    [ok |-> TRUE, value |-> IF key \in DOMAIN d THEN d[key] ELSE <<>>]

\* line 101: filtered_by_user[uid], a KeyError when uid has no entry
Subscript(d, key) ==
    IF key \in DOMAIN d THEN [ok |-> TRUE, value |-> d[key]]
    ELSE [ok |-> FALSE, value |-> <<>>]

\* lines 112 and 116: a rule that matches ends the loop over the rules
EndsScan(matches) == matches

\* lines 106-116: one iteration of "for rule in rules"
RuleIter(ev, rule, user, display_name, cache, by_user) ==
    IF RuleDisabled(rule)
    THEN [checked |-> FALSE, res |-> FALSE, cache |-> cache, log |-> <<>>,
          by_user |-> by_user, brk |-> FALSE]
    ELSE LET r == _condition_checker(ev, rule.conditions, user, display_name,
                                     cache)
         IN  [checked |-> TRUE, res |-> r.res, cache |-> r.cache,
              log |-> r.log,
              by_user |-> IF r.res
                          THEN Record(by_user, user,
                                      FilterActions(rule.actions))
                          ELSE by_user,
              brk |-> EndsScan(r.res)]

\* lines 105-116: the loop "for rule in rules" from the i-th rule on
RECURSIVE ScanRules(_, _, _, _, _, _, _)
ScanRules(ev, rules, i, user, display_name, cache, by_user) ==
    IF i > Len(rules) THEN [cache |-> cache, by_user |-> by_user]
    ELSE LET s == RuleIter(ev, rules[i], user, display_name, cache, by_user)
         IN  IF s.brk THEN [cache |-> s.cache, by_user |-> s.by_user]
             ELSE ScanRules(ev, rules, i + 1, user, display_name, s.cache,
                            s.by_user)

\* lines 98-117: the loop over the users taken in the order of the sequence
\* order, from its i-th user on, and the value returned
RECURSIVE RunPass(_, _, _, _)
RunPass(order, i, cache, by_user) ==
    IF i > Len(order) THEN [raised |-> FALSE, by_user |-> by_user]
    ELSE LET u == order[i]
             filtered == Subscript(filtered_by_user, u)
         IN  IF ~filtered.ok THEN [raised |-> TRUE, by_user |-> EmptyDict]
             ELSE IF NotVisible(filtered.value)
             THEN RunPass(order, i + 1, cache, by_user)
             ELSE LET s == ScanRules(evaluator, rules_by_user[u], 1, u,
                                     Get(display_names, u), cache, by_user)
                  IN  RunPass(order, i + 1, s.cache, s.by_user)

\* FreshCache without the new dict: the cache of the invocation before
LeftCache(left) == left

\* line 86: "condition_cache = {}", whatever an earlier invocation left
FreshCache(left) == EmptyDict

\* RulesAfterFilter as "rule['actions'] = [x for x in ...]": the filtered
\* list replaces the actions of the rule
RulesFilteredInPlace(rules, user, i, actions) ==
    [rules EXCEPT ![user][i].actions = actions]

\* line 113: the comprehension builds a new list; rule['actions'] and the
\* rule sets are left as they were
RulesAfterFilter(rules, user, i, actions) == rules

\* what an invocation has before line 76
Unbound ==
    [pc |-> "idle", actions_by_user |-> EmptyDict, users_dict |-> EmptyDict,
     filtered_by_user |-> EmptyDict, evaluator |-> None,
     condition_cache |-> EmptyDict, display_names |-> EmptyDict,
     todo |-> {}, uid |-> None, ri |-> 0, calls |-> <<>>, checks |-> <<>>,
     member_state |-> {}, error |-> None, io |-> <<>>, taken |-> <<>>]

Init ==
    /\ rules_by_user \in [Users -> RuleLists]
    /\ pc = "idle"
    /\ actions_by_user = EmptyDict
    /\ users_dict = EmptyDict
    /\ filtered_by_user = EmptyDict
    /\ evaluator = None
    /\ condition_cache = EmptyDict
    /\ display_names = EmptyDict
    /\ todo = {}
    /\ uid = None
    /\ ri = 0
    /\ calls = <<>>
    /\ checks = <<>>
    /\ member_state = {}
    /\ error = None
    /\ io = <<>>
    /\ taken = <<>>
    /\ past = <<>>
    /\ suspended = None
    /\ user_ids = {}
    /\ stored = EmptyDict

\* lines 76-78: the call, up to the first yield
Call ==
    /\ pc = "idle"
    /\ actions_by_user' = EmptyDict
    /\ pc' = "are_guests"
    /\ UNCHANGED <<rules_by_user, users_dict, filtered_by_user, evaluator,
                   condition_cache, display_names, todo, uid, ri, calls,
                   checks>>
    /\ UNCHANGED <<member_state, error, io, taken, past, suspended,
                   user_ids, stored>>

\* lines 78-82: store.are_guests answers; the filter is asked
AreGuests ==
    /\ pc = "are_guests"
    /\ \E g \in GuestAnswers :
          users_dict' = [u \in DOMAIN rules_by_user |-> g[u]]
    /\ pc' = "filter"
    /\ io' = Append(io, "are_guests")
    /\ UNCHANGED <<rules_by_user, actions_by_user, filtered_by_user,
                   evaluator, condition_cache, display_names, todo, uid, ri,
                   calls, checks>>
    /\ UNCHANGED <<member_state, error, taken, past, suspended, user_ids,
                   stored>>

\* lines 80-90: the filter answers; the evaluator and the empty cache are
\* made; the state of the event is asked for
FilterEvents ==
    /\ pc = "filter"
    /\ \E f \in FilterAnswers(DOMAIN users_dict) : filtered_by_user' = f
    /\ \E e \in Evaluators : evaluator' = e
    /\ condition_cache' = FreshCache(condition_cache)
    /\ pc' = "get_state"
    /\ io' = Append(io, "filter_events")
    /\ UNCHANGED <<rules_by_user, actions_by_user, users_dict, display_names,
                   todo, uid, ri, calls, checks>>
    /\ UNCHANGED <<member_state, error, taken, past, suspended, user_ids,
                   stored>>

\* lines 88-98: the state answers; the display names are collected and the
\* loop over the users begins
GetState ==
    /\ pc = "get_state"
    /\ \E ms \in StateSnapshots :
          /\ member_state' = ms
          /\ display_names' = DisplayNamesOf(ms)
    /\ todo' = DOMAIN rules_by_user
    /\ pc' = "users"
    /\ io' = Append(io, "get_state")
    /\ UNCHANGED <<rules_by_user, actions_by_user, users_dict,
                   filtered_by_user, evaluator, condition_cache, uid, ri,
                   calls, checks>>
    /\ UNCHANGED <<error, taken, past, suspended, user_ids, stored>>

\* lines 98-105: one iteration of "for uid, rules in ...items()", up to the
\* loop over the rules.  A dict gives its items in an order the code does
\* not choose.
NextUser ==
    /\ pc = "users"
    /\ \E u \in todo :
          LET filtered == Subscript(filtered_by_user, u)
          IN  /\ uid' = u
              /\ todo' = todo \ {u}
              /\ taken' = Append(taken, u)
              /\ IF ~filtered.ok
                 THEN pc' = "raised" /\ ri' = ri /\ error' = "KeyError"
                 ELSE IF NotVisible(filtered.value)
                         \/ Len(rules_by_user[u]) = 0
                 THEN pc' = "users" /\ ri' = ri /\ error' = error
                 ELSE pc' = "rules" /\ ri' = 1 /\ error' = error
    /\ UNCHANGED <<rules_by_user, actions_by_user, users_dict,
                   filtered_by_user, evaluator, condition_cache,
                   display_names, calls, checks>>
    /\ UNCHANGED <<member_state, io, past, suspended, user_ids, stored>>

\* lines 105-116: one iteration of "for rule in rules"
RuleStep ==
    /\ pc = "rules"
    /\ LET rules == rules_by_user[uid]
           s == RuleIter(evaluator, rules[ri], uid, Get(display_names, uid),
                         condition_cache, actions_by_user)
       IN  /\ condition_cache' = s.cache
           /\ actions_by_user' = s.by_user
           /\ calls' = calls \o s.log
           /\ checks' = IF s.checked
                        THEN Append(checks,
                               [uid |-> uid, ri |-> ri,
                                cache |-> condition_cache, res |-> s.res,
                                after |-> s.cache, from |-> Len(calls),
                                to |-> Len(calls) + Len(s.log)])
                        ELSE checks
           /\ rules_by_user' =
                 IF s.res
                 THEN RulesAfterFilter(rules_by_user, uid, ri,
                                       FilterActions(rules[ri].actions))
                 ELSE rules_by_user
           /\ IF s.brk \/ ri = Len(rules)
              THEN pc' = "users" /\ ri' = ri
              ELSE pc' = "rules" /\ ri' = ri + 1
    /\ UNCHANGED <<users_dict, filtered_by_user, evaluator, display_names,
                   todo, uid>>
    /\ UNCHANGED <<member_state, error, io, taken, past, suspended,
                   user_ids, stored>>

\* line 117: defer.returnValue(actions_by_user)
Return ==
    /\ pc = "users"
    /\ todo = {}
    /\ pc' = "done"
    /\ UNCHANGED <<rules_by_user, actions_by_user, users_dict,
                   filtered_by_user, evaluator, condition_cache,
                   display_names, todo, uid, ri, calls, checks>>
    /\ UNCHANGED <<member_state, error, io, taken, past, suspended,
                   user_ids, stored>>

Next ==
    \/ Call
    \/ AreGuests
    \/ FilterEvents
    \/ GetState
    \/ NextUser
    \/ RuleStep
    \/ Return

Spec == Init /\ [][Next]_vars

-----------------------------------------------------------------------------
(* Several invocations of action_for_event_by_user on one evaluator, one   *)
(* after the other                                                         *)

\* invocations of one evaluator in a row
MaxEvaluations == 2

\* the rule lists of the users of this evaluator
SeqRuleLists == { Pick({2}, 1), Pick({2, 4}, 1), Pick({1, 2}, 1) }

\* the collaborators' answers here: no guests, every user sees the event,
\* contains_display_name answers alike for all users, one state snapshot
SeqEvaluators == { e \in Evaluators : \A u, v \in Users : e.personal[u] = e.personal[v] }

\* what is kept of an invocation that has ended
Ended ==
    [pc |-> pc, result |-> actions_by_user, taken |-> taken,
     users_dict |-> users_dict, filtered_by_user |-> filtered_by_user,
     evaluator |-> evaluator, member_state |-> member_state,
     cache |-> condition_cache]

\* one sequence is the beginning of the other
Compatible(a, b) ==
    \A i \in 1..(IF Len(a) < Len(b) THEN Len(a) ELSE Len(b)) : a[i] = b[i]

\* self.rules_by_user is not modified, and a dict that is not modified gives
\* its items in the same order every time
SameOrder == \A k \in DOMAIN past : Compatible(taken, past[k].taken)

InitSeq ==
    /\ Init
    /\ rules_by_user \in [Users -> SeqRuleLists]

\* lines 76-78: the evaluator is called again after an invocation has
\* ended; the new invocation has fresh locals (what the cache of the
\* invocation before held stays in memory until line 86 makes a new one)
CallAgain ==
    /\ pc \in {"done", "raised"}
    /\ Len(past) < MaxEvaluations - 1
    /\ past' = Append(past, Ended)
    /\ actions_by_user' = EmptyDict
    /\ pc' = "are_guests"
    /\ users_dict' = Unbound.users_dict
    /\ filtered_by_user' = Unbound.filtered_by_user
    /\ evaluator' = Unbound.evaluator
    /\ display_names' = Unbound.display_names
    /\ todo' = Unbound.todo
    /\ uid' = Unbound.uid
    /\ ri' = Unbound.ri
    /\ calls' = Unbound.calls
    /\ checks' = Unbound.checks
    /\ member_state' = Unbound.member_state
    /\ error' = Unbound.error
    /\ io' = Unbound.io
    /\ taken' = Unbound.taken
    /\ UNCHANGED <<rules_by_user, condition_cache, suspended, user_ids,
                   stored>>

SeqAreGuests == AreGuests /\ \A u \in Users : ~users_dict'[u]

SeqFilterEvents ==
    /\ FilterEvents
    /\ \A u \in Users : Subscript(filtered_by_user', u).value # <<>>
    /\ evaluator' \in SeqEvaluators

SeqGetState == GetState /\ "@u2" \notin DOMAIN display_names'

SeqNextUser == NextUser /\ SameOrder'

NextSeq ==
    \/ Call
    \/ CallAgain
    \/ SeqAreGuests
    \/ SeqFilterEvents
    \/ SeqGetState
    \/ SeqNextUser
    \/ RuleStep
    \/ Return

SpecSeq == InitSeq /\ [][NextSeq]_vars

-----------------------------------------------------------------------------
(* Two invocations of action_for_event_by_user on one evaluator, in flight *)
(* at the same time: each @defer.inlineCallbacks invocation has its own    *)
(* frame, and the reactor runs one of them at a time                       *)

\* the frame of the invocation that is running
Running ==
    [pc |-> pc, actions_by_user |-> actions_by_user,
     users_dict |-> users_dict, filtered_by_user |-> filtered_by_user,
     evaluator |-> evaluator, condition_cache |-> condition_cache,
     display_names |-> display_names, todo |-> todo, uid |-> uid,
     ri |-> ri, calls |-> calls, checks |-> checks,
     member_state |-> member_state, error |-> error, io |-> io,
     taken |-> taken]

\* OwnCache with one cache for all invocations of the evaluator
OneCache(own, running) == running

\* line 86: condition_cache is a local of the invocation; the invocation
\* that goes on finds the cache it made itself
OwnCache(own, running) == own

InitConc ==
    /\ rules_by_user \in [Users -> SeqRuleLists]
    /\ pc = Unbound.pc
    /\ actions_by_user = Unbound.actions_by_user
    /\ users_dict = Unbound.users_dict
    /\ filtered_by_user = Unbound.filtered_by_user
    /\ evaluator = Unbound.evaluator
    /\ condition_cache = Unbound.condition_cache
    /\ display_names = Unbound.display_names
    /\ todo = Unbound.todo
    /\ uid = Unbound.uid
    /\ ri = Unbound.ri
    /\ calls = Unbound.calls
    /\ checks = Unbound.checks
    /\ member_state = Unbound.member_state
    /\ error = Unbound.error
    /\ io = Unbound.io
    /\ taken = Unbound.taken
    /\ suspended = Unbound
    /\ past = <<>>
    /\ user_ids = {}
    /\ stored = EmptyDict

\* the reactor leaves the running invocation at a yield (lines 78, 80, 88),
\* before its call or after its end, and goes on with the other one; lines
\* 92-117 have no yield
Switch ==
    /\ pc \notin {"users", "rules"}
    /\ suspended' = Running
    /\ pc' = suspended.pc
    /\ actions_by_user' = suspended.actions_by_user
    /\ users_dict' = suspended.users_dict
    /\ filtered_by_user' = suspended.filtered_by_user
    /\ evaluator' = suspended.evaluator
    /\ condition_cache' = OwnCache(suspended.condition_cache, condition_cache)
    /\ display_names' = suspended.display_names
    /\ todo' = suspended.todo
    /\ uid' = suspended.uid
    /\ ri' = suspended.ri
    /\ calls' = suspended.calls
    /\ checks' = suspended.checks
    /\ member_state' = suspended.member_state
    /\ error' = suspended.error
    /\ io' = suspended.io
    /\ taken' = suspended.taken
    /\ UNCHANGED <<rules_by_user, past, user_ids, stored>>

\* both invocations iterate the same unmodified dict
ConcNextUser == NextUser /\ Compatible(taken', suspended.taken)

NextConc ==
    \/ Call
    \/ Switch
    \/ SeqAreGuests
    \/ SeqFilterEvents
    \/ SeqGetState
    \/ ConcNextUser
    \/ RuleStep
    \/ Return

SpecConc == InitConc /\ [][NextConc]_vars

-----------------------------------------------------------------------------
(* evaluator_for_room_id, _get_rules and decode_rule_json, lines 30-56,    *)
(* followed by an invocation of the evaluator they make                    *)

\* Serialized lists as the storage holds them, and one text that is not the
\* serialization of anything.
TextC1 == "[{kind: event_match, pattern: p1, _id: c1}]"
TextC1N == "[{kind: event_match, pattern: p1, _id: c1}, {kind: contains_display_name}]"
TextNotify == "[notify]"
TextAll == "[notify, dont_notify, sound]"
TextBad == "[{kind: event_m"

\* what json.loads gives for the texts it accepts
JsonTable ==
    (TextC1 :> <<CondC1>>) @@ (TextC1N :> <<CondC1, CondN>>)
        @@ (TextNotify :> <<"notify">>)
        @@ (TextAll :> <<"notify", "dont_notify", "sound">>)

\* json.loads(text): the value, or a ValueError
JsonLoads(text) ==
    IF text \in DOMAIN JsonTable
    THEN [ok |-> TRUE, value |-> JsonTable[text]]
    ELSE [ok |-> FALSE, value |-> None]

\* stored rows
RowC1 == [rule_id |-> "r1", conditions |-> TextC1, actions |-> TextNotify]
RowC1N == [rule_id |-> "r2", conditions |-> TextC1N, actions |-> TextAll]
RowBadConditions ==
    [rule_id |-> "r3", conditions |-> TextBad, actions |-> TextNotify]
RowBadActions ==
    [rule_id |-> "r4", conditions |-> TextC1, actions |-> TextBad]

RowLists ==
    { <<>>, <<RowC1>>, <<RowC1, RowC1N>>, <<RowBadConditions>>,
      <<RowC1, RowBadActions>>, <<RowBadActions, RowC1N>> }

\* what store.get_users_in_room may answer
UserIdSets == SUBSET Users

\* what store.bulk_get_push_rules(user_ids) may answer: rows for some of
\* the users asked for
StoredAnswers(ids) == UNION { [D -> RowLists] : D \in SUBSET ids }

\* the orders in which a collection gives its elements
IterationsOf(S) ==
    { o \in [1..Cardinality(S) -> S] :
        \A i, j \in DOMAIN o : o[i] = o[j] => i = j }

\* the built-in rules (baserules, not part of this file)
BaseRules ==
    << [rule_id |-> ".m.rule.contains_display_name",
        conditions |-> <<CondN>>, actions |-> <<"notify", "sound">>] >>

\* baserules.list_with_base_rules(rawrules): the rules of the user with the
\* built-in rules merged in; with no rules of the user, the built-in rules
list_with_base_rules(rawrules) == rawrules \o BaseRules

\* lines 30-33: both fields are replaced in the row itself, conditions
\* first; json.loads raising leaves the row as far as it got
decode_rule_json(rule) ==
    LET c == JsonLoads(rule.conditions)
        r1 == [rule EXCEPT !.conditions = c.value]
        a == JsonLoads(rule.actions)
    IN  IF ~c.ok THEN [ok |-> FALSE, rule |-> rule]
        ELSE IF ~a.ok THEN [ok |-> FALSE, rule |-> r1]
        ELSE [ok |-> TRUE, rule |-> [r1 EXCEPT !.actions = a.value]]

RECURSIVE DecodeFrom(_, _)
\* lines 41-44 from the i-th row on: the rows as decoding leaves them, up
\* to and with the first row that raises
DecodeFrom(rows, i) ==
    IF i > Len(rows) THEN [ok |-> TRUE, rows |-> rows]
    ELSE LET d == decode_rule_json(rows[i])
             now == [rows EXCEPT ![i] = d.rule]
         IN  IF ~d.ok THEN [ok |-> FALSE, rows |-> now]
             ELSE DecodeFrom(now, i + 1)

\* DecodeList with "try: decode except ValueError: continue": the rows
\* that do not decode are left out
DecodeListSkipping(rows) ==
    [ok |-> TRUE,
     rows |-> LET ds == [i \in DOMAIN rows |-> decode_rule_json(rows[i])]
                  good == SelectSeq(ds, LAMBDA d : d.ok)
              IN  [i \in DOMAIN good |-> good[i].rule]]

\* lines 41-44: "[decode_rule_json(rule_list) for rule_list in ...]"
DecodeList(rows) == DecodeFrom(rows, 1)

\* line 43: rules_by_user.get(uid, [])
RowsOf(answer, user) == IF user \in DOMAIN answer THEN answer[user] ELSE <<>>

\* LoadedIds as "for uid in rules_by_user": the users the storage answered
\* for
StoredIds(ids, answer) == ids \cap DOMAIN answer

\* line 45: "for uid in user_ids"
LoadedIds(ids, answer) == ids

\* StorageReads with one store.get_push_rules_for_user per user
ReadPerUser(ids) == [i \in 1..Cardinality(ids) |-> "bulk_get_push_rules"]

\* line 38: one store.bulk_get_push_rules(user_ids) for all the users
StorageReads(ids) == <<"bulk_get_push_rules">>

RECURSIVE Comprehension(_, _, _, _)
\* lines 39-46: the dict comprehension from the i-th user on; "answer" is
\* the storage's answer with its rows as decoding has left them
Comprehension(order, i, answer, rules) ==
    IF i > Len(order) THEN [ok |-> TRUE, rules |-> rules, answer |-> answer]
    ELSE LET u == order[i]
             d == DecodeList(RowsOf(answer, u))
             now == IF u \in DOMAIN answer
                    THEN [answer EXCEPT ![u] = d.rows] ELSE answer
         IN  IF ~d.ok
             THEN [ok |-> FALSE, rules |-> EmptyDict, answer |-> now]
             ELSE Comprehension(order, i + 1, now,
                                Record(rules, u, list_with_base_rules(d.rows)))

InitLoad ==
    /\ rules_by_user = EmptyDict
    /\ pc = "unloaded"
    /\ actions_by_user = Unbound.actions_by_user
    /\ users_dict = Unbound.users_dict
    /\ filtered_by_user = Unbound.filtered_by_user
    /\ evaluator = Unbound.evaluator
    /\ condition_cache = Unbound.condition_cache
    /\ display_names = Unbound.display_names
    /\ todo = Unbound.todo
    /\ uid = Unbound.uid
    /\ ri = Unbound.ri
    /\ calls = Unbound.calls
    /\ checks = Unbound.checks
    /\ member_state = Unbound.member_state
    /\ error = Unbound.error
    /\ io = Unbound.io
    /\ taken = Unbound.taken
    /\ past = <<>>
    /\ suspended = None
    /\ user_ids = {}
    /\ stored = EmptyDict

\* lines 51-53: evaluator_for_room_id is called; store.get_users_in_room
\* answers and _get_rules asks the storage
GetUsersInRoom ==
    /\ pc = "unloaded"
    /\ user_ids' \in UserIdSets
    /\ io' = Append(io, "get_users_in_room") \o StorageReads(user_ids')
    /\ pc' = "get_rules"
    /\ UNCHANGED <<rules_by_user, actions_by_user, users_dict,
                   filtered_by_user, evaluator, condition_cache,
                   display_names, todo, uid, ri, calls, checks>>
    /\ UNCHANGED <<member_state, error, taken, past, suspended, stored>>

\* lines 38-46 and 53-56: the storage answers; the rows are decoded and the
\* built-in rules merged in; the evaluator is made of the result, or the
\* ValueError of json.loads leaves evaluator_for_room_id
GetRules ==
    /\ pc = "get_rules"
    /\ \E answer \in StoredAnswers(user_ids) :
       \E order \in IterationsOf(LoadedIds(user_ids, answer)) :
          LET c == Comprehension(order, 1, answer, EmptyDict)
          IN  /\ stored' = c.answer
              /\ rules_by_user' = c.rules
              /\ pc' = IF c.ok THEN "idle" ELSE "raised"
              /\ error' = IF c.ok THEN error ELSE "ValueError"
              /\ past' = Append(past, [pc |-> "get_rules", stored |-> answer])
    /\ UNCHANGED <<actions_by_user, users_dict, filtered_by_user, evaluator,
                   condition_cache, display_names, todo, uid, ri, calls,
                   checks>>
    /\ UNCHANGED <<member_state, io, taken, suspended, user_ids>>

NextLoad ==
    \/ GetUsersInRoom
    \/ GetRules
    \/ Call
    \/ AreGuests
    \/ FilterEvents
    \/ GetState
    \/ NextUser
    \/ RuleStep
    \/ Return

SpecLoad == InitLoad /\ [][NextLoad]_vars

-----------------------------------------------------------------------------
(* action_for_event_by_user with collaborators that may fail               *)

\* what a collaborator may raise
Exceptions == {"IOError", "RuntimeError"}

\* AfterFailure with "except Exception: continue" around the work for one
\* user: the invocation goes on with the users that are left
GoOn(exc) == "users"

\* lines 74-117 have no try/except: an exception raised by a collaborator
\* leaves action_for_event_by_user, through the yield for a failed Deferred
AfterFailure(exc) == "raised"

RECURSIVE StoredUpTo(_, _, _, _)
\* lines 131-133 for the first j evaluator invocations of a check
StoredUpTo(ev, cache, log, j) ==
    IF j = 0 THEN cache
    ELSE StoreResult(StoredUpTo(ev, cache, log, j - 1),
                     Get(log[j].cond, "_id"),
                     Matches(ev, log[j].cond, log[j].uid,
                             log[j].display_name))

\* line 78: store.are_guests fails
AreGuestsFails ==
    /\ pc = "are_guests"
    /\ \E exc \in Exceptions :
          /\ error' = exc
          /\ past' = Append(past, [pc |-> pc, raised |-> exc])
          /\ pc' = AfterFailure(exc)
    /\ io' = Append(io, "are_guests")
    /\ UNCHANGED <<rules_by_user, actions_by_user, users_dict,
                   filtered_by_user, evaluator, condition_cache,
                   display_names, todo, uid, ri, calls, checks>>
    /\ UNCHANGED <<member_state, taken, suspended, user_ids, stored>>

\* line 80: handler._filter_events_for_clients fails
FilterEventsFails ==
    /\ pc = "filter"
    /\ \E exc \in Exceptions :
          /\ error' = exc
          /\ past' = Append(past, [pc |-> pc, raised |-> exc])
          /\ pc' = AfterFailure(exc)
    /\ io' = Append(io, "filter_events")
    /\ UNCHANGED <<rules_by_user, actions_by_user, users_dict,
                   filtered_by_user, evaluator, condition_cache,
                   display_names, todo, uid, ri, calls, checks>>
    /\ UNCHANGED <<member_state, taken, suspended, user_ids, stored>>

\* line 88: store.get_state_for_event fails
GetStateFails ==
    /\ pc = "get_state"
    /\ \E exc \in Exceptions :
          /\ error' = exc
          /\ past' = Append(past, [pc |-> pc, raised |-> exc])
          /\ pc' = AfterFailure(exc)
    /\ io' = Append(io, "get_state")
    /\ UNCHANGED <<rules_by_user, actions_by_user, users_dict,
                   filtered_by_user, evaluator, condition_cache,
                   display_names, todo, uid, ri, calls, checks>>
    /\ UNCHANGED <<member_state, taken, suspended, user_ids, stored>>

\* line 130: evaluator.matches fails, at the j-th invocation the check of
\* the rule makes; the invocations before it have answered and are cached
MatchesFails ==
    /\ pc = "rules"
    /\ LET rules == rules_by_user[uid]
           s == RuleIter(evaluator, rules[ri], uid, Get(display_names, uid),
                         condition_cache, actions_by_user)
       IN  \E j \in 1..Len(s.log) : \E exc \in Exceptions :
              /\ calls' = calls \o SubSeq(s.log, 1, j)
              /\ condition_cache' =
                    StoredUpTo(evaluator, condition_cache, s.log, j - 1)
              /\ error' = exc
              /\ past' = Append(past, [pc |-> "matches", raised |-> exc])
              /\ pc' = AfterFailure(exc)
    /\ UNCHANGED <<rules_by_user, actions_by_user, users_dict,
                   filtered_by_user, evaluator, display_names, todo, uid, ri,
                   checks>>
    /\ UNCHANGED <<member_state, io, taken, suspended, user_ids, stored>>

NextFail ==
    \/ Call
    \/ SeqAreGuests
    \/ AreGuestsFails
    \/ SeqFilterEvents
    \/ FilterEventsFails
    \/ SeqGetState
    \/ GetStateFails
    \/ NextUser
    \/ RuleStep
    \/ MatchesFails
    \/ Return

SpecFail == InitSeq /\ [][NextFail]_vars

-----------------------------------------------------------------------------
(* What the claims speak of, stated without the operators of the pass *)

\* the event has been filtered and its evaluator built
Evaluating == pc \in {"get_state", "users", "rules", "done", "raised"}

\* the truth of a condition for a user: the answer of the evaluator
Holds(cond, u) == Matches(evaluator, cond, u, Get(display_names, u))

\* every condition of the sequence matches
AllMatch(conds, u) == \A i \in 1..Len(conds) : Holds(conds[i], u)

\* every condition before the i-th matches
AllMatchBefore(conds, i, u) == \A j \in 1..(i - 1) : Holds(conds[j], u)

\* the cache identifier of a condition, None when it carries none
IdOf(cond) == IF "_id" \in DOMAIN cond THEN cond._id ELSE None

\* the rule a logged _condition_checker call was made for
RuleOf(c) == rules_by_user[c.uid][c.ri]

\* the evaluator invocations a logged _condition_checker call made
CallsOf(c) == (c.from + 1)..c.to

\* the rule is switched off: its enabled field is present and false
SwitchedOff(rule) == "enabled" \in DOMAIN rule /\ rule.enabled = FALSE

\* the rule would match the event for the user
WouldMatch(u, i) ==
    /\ ~SwitchedOff(rules_by_user[u][i])
    /\ AllMatch(rules_by_user[u][i].conditions, u)

NotDontNotify(x) == x # "dont_notify"

\* the actions that survive the removal of dont_notify, in their order
Surviving(actions) == SelectSeq(actions, NotDontNotify)

\* the entry of the user in the action map is these actions; no entry when
\* there are none
ResultIs(u, actions) ==
    IF actions = <<>> THEN u \notin DOMAIN actions_by_user
    ELSE u \in DOMAIN actions_by_user /\ actions_by_user[u] = actions

\* the filter found the event visible to the user
Visible(u) == u \in DOMAIN filtered_by_user /\ filtered_by_user[u] # <<>>

\* the pass is through with the user
Passed(u) ==
    /\ pc \in {"users", "rules", "done"}
    /\ u \notin todo
    /\ ~(pc = "rules" /\ uid = u)

-----------------------------------------------------------------------------
(* C1: _condition_checker returns true if and only if every condition of   *)
(* the sequence matches for the user, whatever the cache holds: a false    *)
(* result, computed or taken from the cache, makes the result false.       *)
C1_TrueIffAllMatch ==
    \A k \in DOMAIN checks :
        checks[k].res = AllMatch(RuleOf(checks[k]).conditions, checks[k].uid)

(* C2: first-match-wins.  When the first rule of a user that would match   *)
(* is followed by another rule that would match, the entry of the user is  *)
(* the actions of the first with dont_notify removed, and no rule after    *)
(* the first is consulted.                                                 *)
C2_FirstMatchWins ==
    \A u \in Users :
        Passed(u) /\ Visible(u) =>
            \A a, b \in DOMAIN rules_by_user[u] :
                ( /\ a < b
                  /\ WouldMatch(u, a)
                  /\ WouldMatch(u, b)
                  /\ \A i \in 1..(a - 1) : ~WouldMatch(u, i) )
                => /\ ResultIs(u, Surviving(rules_by_user[u][a].actions))
                   /\ \A k \in DOMAIN checks :
                          checks[k].uid = u => checks[k].ri <= a

(* C3: for each cache identifier the evaluator is invoked at most once in  *)
(* an event evaluation, over all rules and users; a condition whose        *)
(* identifier the cache already holds is not handed to the evaluator.      *)
C3_OncePerIdentifier ==
    /\ \A i, j \in DOMAIN calls :
          ( /\ IdOf(calls[i].cond) # None
            /\ IdOf(calls[i].cond) = IdOf(calls[j].cond) ) => i = j
    /\ \A k \in DOMAIN checks : \A j \in CallsOf(checks[k]) :
          IdOf(calls[j].cond) \notin DOMAIN checks[k].cache

\* two users have had a rule checked whose first condition carries c1, and
\* the evaluator was invoked once for c1
C3_Witness ==
    /\ pc = "done"
    /\ \E k1, k2 \in DOMAIN checks :
          /\ checks[k1].uid # checks[k2].uid
          /\ RuleOf(checks[k1]).conditions[1] = CondC1
          /\ RuleOf(checks[k2]).conditions[1] = CondC1
    /\ Cardinality({ j \in DOMAIN calls : calls[j].cond = CondC1 }) = 1

\* the orders in which the loop over the users may take them
Orders ==
    { o \in [1..Cardinality(Users) -> Users] :
        \A i, j \in DOMAIN o : o[i] = o[j] => i = j }

(* C4: the order in which the users are taken does not change the action   *)
(* map: the map returned equals the map the pass gives for the same event, *)
(* rule sets and evaluator with the users taken in any other order.        *)
C4_OrderIndependent ==
    pc = "done" =>
        \A o \in Orders :
            RunPass(o, 1, EmptyDict, EmptyDict) =
                [raised |-> FALSE, by_user |-> actions_by_user]

(* C5: short-circuit.  No condition that follows a false condition in the  *)
(* sequence of a rule is evaluated for the user: the evaluator is invoked  *)
(* only for conditions all of whose predecessors match, and a check writes *)
(* the cache only under identifiers of such conditions.                    *)
C5_ShortCircuit ==
    \A k \in DOMAIN checks :
        LET c == checks[k]
            conds == RuleOf(c).conditions
        IN  /\ \A j \in CallsOf(c) :
                  /\ calls[j].uid = c.uid
                  /\ calls[j].cond = conds[calls[j].ci]
                  /\ AllMatchBefore(conds, calls[j].ci, c.uid)
            /\ \A id \in DOMAIN c.after \ DOMAIN c.cache :
                  \E i \in DOMAIN conds :
                      /\ IdOf(conds[i]) = id
                      /\ AllMatchBefore(conds, i, c.uid)

\* a rule of two conditions was checked, its first condition was evaluated
\* and is false, and nothing else was evaluated or cached
C5_Witness ==
    \E k \in DOMAIN checks :
        LET c == checks[k]
            conds == RuleOf(c).conditions
        IN  /\ Len(conds) = 2
            /\ ~Holds(conds[1], c.uid)
            /\ c.to = c.from + 1
            /\ calls[c.to].ci = 1
            /\ IdOf(conds[2]) # None
            /\ IdOf(conds[2]) \notin DOMAIN c.after
            /\ c.res = FALSE

(* C6: a condition with no cache identifier is never memoized: in every    *)
(* check the evaluator is invoked once for each such condition the check   *)
(* reaches (each whose predecessors all match) and never for another, and  *)
(* the cache holds entries under cache identifiers only.                   *)
C6_NoIdNeverMemoized ==
    /\ \A k \in DOMAIN checks :
          LET c == checks[k]
              conds == RuleOf(c).conditions
          IN  \A i \in DOMAIN conds :
                  IdOf(conds[i]) = None =>
                      Cardinality({ j \in CallsOf(c) : calls[j].ci = i }) =
                          IF AllMatchBefore(conds, i, c.uid) THEN 1 ELSE 0
    /\ DOMAIN condition_cache \subseteq
          { IdOf(cond) : cond \in {CondC1, CondC2} }

\* the condition without identifier was evaluated twice for one user, in
\* two rules
C6_Witness ==
    \E i, j \in DOMAIN calls :
        /\ i < j
        /\ calls[i].cond = CondN
        /\ calls[j].cond = CondN
        /\ calls[i].uid = calls[j].uid

(* C7: action filtering.  The entry of a user is the action sequence of    *)
(* the rule that won, without any dont_notify and otherwise in order; when *)
(* nothing but dont_notify was there the user has no entry; no rule after  *)
(* the winning one is checked for the user; a user for whom no rule won    *)
(* has no entry.                                                           *)
C7_ActionFiltering ==
    /\ \A k \in DOMAIN checks :
          checks[k].res =>
              /\ ResultIs(checks[k].uid, Surviving(RuleOf(checks[k]).actions))
              /\ \A n \in DOMAIN checks :
                    checks[n].uid = checks[k].uid => checks[n].ri <= checks[k].ri
    /\ \A u \in DOMAIN actions_by_user :
          \E k \in DOMAIN checks : checks[k].uid = u /\ checks[k].res

\* a rule whose actions are [dont_notify] won before a later rule that
\* would match, and the user has no entry in the returned map
C7_Witness ==
    /\ pc = "done"
    /\ \E k \in DOMAIN checks :
          LET u == checks[k].uid
          IN  /\ checks[k].res
              /\ RuleOf(checks[k]).actions = <<"dont_notify">>
              /\ \E b \in DOMAIN rules_by_user[u] :
                    /\ b > checks[k].ri
                    /\ WouldMatch(u, b)
                    /\ Surviving(rules_by_user[u][b].actions) # <<>>
              /\ u \notin DOMAIN actions_by_user

\* a rule with the actions [notify, dont_notify, sound] won
C7_WitnessMixed ==
    \E k \in DOMAIN checks :
        /\ checks[k].res
        /\ RuleOf(checks[k]).actions = <<"notify", "dont_notify", "sound">>
        /\ actions_by_user[checks[k].uid] = <<"notify", "sound">>

(* C8: visibility exclusion.  A user for whom the filter returned no       *)
(* visible event has no entry in the action map, and no rule is checked    *)
(* and no condition evaluated on behalf of that user.                      *)
C8_VisibilityExclusion ==
    \A u \in Users :
        ( /\ Evaluating
          /\ u \in DOMAIN filtered_by_user
          /\ filtered_by_user[u] = <<>> )
        => /\ u \notin DOMAIN actions_by_user
           /\ \A j \in DOMAIN calls : calls[j].uid # u
           /\ \A k \in DOMAIN checks : checks[k].uid # u

\* the evaluation returned; a user who does not see the event has a rule
\* that would match and a surviving action, and the other user was evaluated
C8_Witness ==
    /\ pc = "done"
    /\ \E u \in Users :
          /\ u \in DOMAIN filtered_by_user
          /\ filtered_by_user[u] = <<>>
          /\ \E i \in DOMAIN rules_by_user[u] :
                /\ WouldMatch(u, i)
                /\ Surviving(rules_by_user[u][i].actions) # <<>>
          /\ \E k \in DOMAIN checks : checks[k].uid # u

(* C9, as claimed: a user for whom the result of the filter has no entry   *)
(* is skipped and the evaluation goes on normally.                         *)
C9_MissingEntrySkipped ==
    \A u \in Users :
        ( /\ pc \in {"users", "rules", "done", "raised"}
          /\ u \notin todo
          /\ u \notin DOMAIN filtered_by_user )
        => pc # "raised"

(* C9, amended: when the pass reaches a user for whom the result of the    *)
(* filter has no entry, the lookup fails and ends the evaluation: no       *)
(* action map is returned, no rule is checked for that user and the users  *)
(* not yet reached are not evaluated.  The evaluation fails in no other    *)
(* way in the pass.                                                        *)
C9_MissingEntryRaises ==
    /\ \A u \in Users :
          ( /\ pc \in {"users", "rules", "done", "raised"}
            /\ u \notin todo
            /\ u \notin DOMAIN filtered_by_user )
          => /\ pc = "raised"
             /\ uid = u
             /\ \A k \in DOMAIN checks : checks[k].uid # u
    /\ pc = "raised" =>
          /\ uid \notin DOMAIN filtered_by_user
          /\ \A k \in DOMAIN checks : checks[k].uid \notin todo
    /\ pc = "done" => DOMAIN filtered_by_user = DOMAIN rules_by_user

\* the evaluation failed at a user without entry while a user who sees the
\* event and has a rule that would match was still to come
C9_Witness ==
    /\ pc = "raised"
    /\ uid \notin DOMAIN filtered_by_user
    /\ \E u \in todo :
          /\ Visible(u)
          /\ \E i \in DOMAIN rules_by_user[u] : WouldMatch(u, i)

(* C10: disabled rules are skipped.  A rule whose enabled field is present *)
(* and false is never checked (none of its conditions is evaluated) and    *)
(* never wins; every other rule of a user who sees the event, a rule with  *)
(* no enabled field included, is checked unless an earlier rule has won.   *)
C10_DisabledSkipped ==
    /\ \A k \in DOMAIN checks : ~SwitchedOff(RuleOf(checks[k]))
    /\ \A j \in DOMAIN calls :
          \E k \in DOMAIN checks : j \in CallsOf(checks[k])
    /\ \A u \in Users :
          Passed(u) /\ Visible(u) =>
              \A i \in DOMAIN rules_by_user[u] :
                  ( /\ ~SwitchedOff(rules_by_user[u][i])
                    /\ \A k \in DOMAIN checks :
                          (checks[k].uid = u /\ checks[k].res)
                              => checks[k].ri >= i )
                  => \E k \in DOMAIN checks :
                          checks[k].uid = u /\ checks[k].ri = i

\* a user who sees the event has a disabled rule all of whose conditions
\* match, no rule won before it, it was not checked, and a rule after it
\* was; a rule with no enabled field was checked too
C10_Witness ==
    /\ pc = "done"
    /\ \E u \in Users : \E i \in DOMAIN rules_by_user[u] :
          /\ Visible(u)
          /\ SwitchedOff(rules_by_user[u][i])
          /\ AllMatch(rules_by_user[u][i].conditions, u)
          /\ \A k \in DOMAIN checks : checks[k].uid = u => checks[k].ri # i
          /\ \E k \in DOMAIN checks : checks[k].uid = u /\ checks[k].ri > i
          /\ \E k \in DOMAIN checks :
                /\ checks[k].uid = u
                /\ "enabled" \notin DOMAIN RuleOf(checks[k])

(* C11: in every action map returned, each entry is a non-empty action     *)
(* sequence without dont_notify, every key is a user that owns a rule set  *)
(* of the evaluator, and a user for whom no rule matches has no entry.     *)
C11_ReturnedMap ==
    pc = "done" =>
        /\ \A u \in DOMAIN actions_by_user :
              /\ u \in DOMAIN rules_by_user
              /\ actions_by_user[u] # <<>>
              /\ \A n \in DOMAIN actions_by_user[u] :
                    actions_by_user[u][n] # "dont_notify"
        /\ \A u \in Users :
              (\A i \in DOMAIN rules_by_user[u] : ~WouldMatch(u, i))
                  => u \notin DOMAIN actions_by_user

\* the display name the state of the event gives the user, None when it
\* gives none
NameInState(u) ==
    LET evs == { e \in member_state :
                   /\ e.state_key = u
                   /\ e.type = "m.room.member"
                   /\ "displayname" \in DOMAIN e.content
                   /\ e.content.displayname # "" }
    IN  IF evs = {} THEN None ELSE (CHOOSE e \in evs : TRUE).content.displayname

(* C18: the display name handed to the evaluator for a user is the         *)
(* displayname of the member event of the state of the event whose state   *)
(* key is the user, when that displayname is not empty; for any other user *)
(* it is absent, and the evaluation does not fail for that.                *)
C18_DisplayName ==
    /\ \A j \in DOMAIN calls : calls[j].display_name = NameInState(calls[j].uid)
    /\ error # None => uid \notin DOMAIN filtered_by_user

\* the evaluator was invoked with the display name of the member event of
\* one user and without display name for a user whose member event has
\* none, and the evaluation returned
C18_Witness ==
    /\ pc = "done"
    /\ \E i, j \in DOMAIN calls :
          /\ calls[i].display_name = "Alice"
          /\ \E e \in member_state :
                /\ e.state_key = calls[i].uid
                /\ e.type = "m.room.member"
                /\ e.content.displayname = "Alice"
          /\ calls[j].display_name = None
          /\ \E e \in member_state :
                /\ e.state_key = calls[j].uid
                /\ e.type = "m.room.member"
                /\ "displayname" \notin DOMAIN e.content

\* the evaluator was invoked without display name for a user whose only
\* displayname is on an event that is no member event
C18_WitnessOtherType ==
    \E j \in DOMAIN calls :
        /\ calls[j].display_name = None
        /\ \E e \in member_state :
              /\ e.state_key = calls[j].uid
              /\ e.type # "m.room.member"
              /\ e.content.displayname = "Bob"

\* the evaluator was invoked without display name for a user whose member
\* event has an empty displayname
C18_WitnessEmpty ==
    \E j \in DOMAIN calls :
        /\ calls[j].display_name = None
        /\ \E e \in member_state :
              /\ e.state_key = calls[j].uid
              /\ e.type = "m.room.member"
              /\ Get(e.content, "displayname") = ""

(* C19: in one evaluation the cache is write-once.  A check leaves every   *)
(* entry it found as it was; an entry it adds is under the identifier of a *)
(* condition it handed to the evaluator and holds the answer; nothing else *)
(* changes the cache between checks.                                       *)
C19_WriteOnce ==
    /\ \A k \in DOMAIN checks :
          LET c == checks[k]
          IN  /\ \A id \in DOMAIN c.cache :
                    id \in DOMAIN c.after /\ c.after[id] = c.cache[id]
              /\ \A id \in DOMAIN c.after \ DOMAIN c.cache :
                    \E j \in CallsOf(c) :
                        /\ IdOf(calls[j].cond) = id
                        /\ c.after[id] = Holds(calls[j].cond, c.uid)
              /\ c.cache = IF k = 1 THEN EmptyDict ELSE checks[k - 1].after
    /\ Evaluating =>
          condition_cache = IF checks = <<>> THEN EmptyDict
                            ELSE checks[Len(checks)].after

\* a check found an entry in the cache, kept it and added another
C19_Witness ==
    \E k \in DOMAIN checks :
        /\ DOMAIN checks[k].cache # {}
        /\ DOMAIN checks[k].after # DOMAIN checks[k].cache
        /\ \A id \in DOMAIN checks[k].cache :
              checks[k].after[id] = checks[k].cache[id]

(* C13: the cache belongs to one event evaluation.  Every invocation       *)
(* starts its pass with an empty cache, and whatever a check finds in the  *)
(* cache was put there by an evaluator invocation of the same invocation,  *)
(* never by the evaluation of an earlier event.                            *)
C13_CachePerEvaluation ==
    /\ (Evaluating /\ checks = <<>>) => condition_cache = EmptyDict
    /\ \A k \in DOMAIN checks : \A id \in DOMAIN checks[k].cache :
          \E j \in 1..checks[k].from : IdOf(calls[j].cond) = id

\* an earlier evaluation cached c1; this one, of an event for which c1
\* answers otherwise, has handed c1 to the evaluator again
C13_Witness ==
    /\ past # <<>>
    /\ "c1" \in DOMAIN past[1].cache
    /\ pc \in {"users", "rules", "done"}
    /\ past[1].pc = "done"
    /\ evaluator.content["p1"] # past[1].evaluator.content["p1"]
    /\ \E j \in DOMAIN calls : calls[j].cond = CondC1

\* this invocation got the answers the k-th earlier invocation got
SameAnswers(k) ==
    /\ past[k].users_dict = users_dict
    /\ past[k].filtered_by_user = filtered_by_user
    /\ past[k].evaluator = evaluator
    /\ past[k].member_state = member_state

(* C20: action_for_event_by_user leaves the rule sets of the evaluator as  *)
(* they were (filtering dont_notify does not touch the rule), and an       *)
(* invocation that gets the answers an earlier one got returns the map the *)
(* earlier one returned.                                                   *)
C20_RulesKeptAndRepeatable ==
    /\ [][rules_by_user' = rules_by_user]_vars
    /\ [](pc = "done" =>
            \A k \in DOMAIN past :
                (past[k].pc = "done" /\ SameAnswers(k))
                    => actions_by_user = past[k].result)

\* the second invocation returned, with the answers the first got; a rule
\* with a dont_notify among its actions won and gave the user an entry
C20_Witness ==
    /\ pc = "done"
    /\ past # <<>>
    /\ past[1].pc = "done"
    /\ SameAnswers(1)
    /\ \E k \in DOMAIN checks :
          /\ checks[k].res
          /\ RuleOf(checks[k]).actions = <<"notify", "dont_notify", "sound">>
          /\ checks[k].uid \in DOMAIN actions_by_user

(* C12: invocations of one evaluator that are in flight at the same time   *)
(* do not influence each other.  What an invocation returns is what its    *)
(* own answers give from an empty cache, and every entry a check finds in  *)
(* the cache is an answer of the invocation's own evaluator, whatever the  *)
(* other invocation did in between.                                        *)
C12_Independent ==
    /\ pc = "done" =>
          actions_by_user = RunPass(taken, 1, EmptyDict, EmptyDict).by_user
    /\ \A k \in DOMAIN checks : \A j \in 1..checks[k].to :
          LET id == IdOf(calls[j].cond)
          IN  id \in DOMAIN checks[k].after
                  => checks[k].after[id] = Holds(calls[j].cond, calls[j].uid)
    /\ \A k \in DOMAIN checks : \A id \in DOMAIN checks[k].after :
          \E j \in 1..checks[k].to : IdOf(calls[j].cond) = id

\* the running invocation is in its pass and has cached an answer for c1,
\* while the other one waits for the room state with an evaluator that
\* answers c1 otherwise
C12_Witness ==
    /\ pc = "rules"
    /\ "c1" \in DOMAIN condition_cache
    /\ suspended.pc = "get_state"
    /\ suspended.evaluator.content["p1"] # condition_cache["c1"]

\* both invocations have returned, with different maps
C12_WitnessBoth ==
    /\ pc = "done"
    /\ suspended.pc = "done"
    /\ suspended.actions_by_user # actions_by_user
    /\ suspended.calls # <<>>
    /\ calls # <<>>

\* the storage has answered _get_rules; what it answered
Answered == past # <<>> /\ past[1].pc = "get_rules"

\* evaluator_for_room_id has returned an evaluator
LoadReturned == Answered /\ error # "ValueError"

(* C14: the mapping _get_rules returns has one entry for every user id it  *)
(* was asked for and no other; a user for whom the storage answered no     *)
(* rows, with an empty list or with no entry, has exactly the built-in     *)
(* rules.                                                                  *)
C14_EntryPerUser ==
    LoadReturned =>
        /\ DOMAIN rules_by_user = user_ids
        /\ \A u \in user_ids :
              RowsOf(past[1].stored, u) = <<>> => rules_by_user[u] = BaseRules

\* an evaluator was made for two users, one with an empty list of rows and
\* one with no entry in the answer of the storage
C14_Witness ==
    /\ LoadReturned
    /\ \E u, v \in user_ids :
          /\ u \notin DOMAIN past[1].stored
          /\ v \in DOMAIN past[1].stored
          /\ past[1].stored[v] = <<>>

\* json.loads raises for one of the two fields of the row
Malformed(row) ==
    ~JsonLoads(row.conditions).ok \/ ~JsonLoads(row.actions).ok

(* C16: when a row the storage answered has a conditions or actions field  *)
(* that json.loads does not accept, the load ends with the ValueError and  *)
(* no rule sets are returned, neither with the row nor without it.         *)
C16_MalformedRowFails ==
    Answered =>
        ((\E u \in DOMAIN past[1].stored :
            \E i \in DOMAIN past[1].stored[u] :
                Malformed(past[1].stored[u][i]))
            => /\ pc = "raised"
               /\ error = "ValueError"
               /\ rules_by_user = EmptyDict)

\* the load failed on the second row of a user, the first row and the rows
\* of the other user being well-formed
C16_Witness ==
    /\ Answered
    /\ pc = "raised"
    /\ error = "ValueError"
    /\ \E u, v \in user_ids :
          /\ u # v
          /\ RowsOf(past[1].stored, u) = <<RowC1, RowBadActions>>
          /\ RowsOf(past[1].stored, v) = <<RowC1>>

\* how often a collaborator was called
Count(log, name) == Cardinality({ i \in DOMAIN log : log[i] = name })

(* C17: by the first evaluator invocation, and by the return, of an        *)
(* invocation, store.are_guests, _filter_events_for_clients and            *)
(* get_state_for_event have each been called once, in this order; the      *)
(* loops over users and rules make no collaborator call that suspends; and *)
(* the load made one bulk_get_push_rules call for all users.               *)
C17_CallsBeforePass ==
    /\ []((calls # <<>> \/ pc = "done") =>
            /\ Count(io, "are_guests") = 1
            /\ Count(io, "filter_events") = 1
            /\ Count(io, "get_state") = 1
            /\ SubSeq(io, Len(io) - 2, Len(io))
                   = <<"are_guests", "filter_events", "get_state">>)
    /\ [](Answered => Count(io, "bulk_get_push_rules") = 1)
    /\ [][(pc \in {"users", "rules"}) => (io' = io)]_vars

\* an evaluator loaded for two users has returned from an invocation in
\* which it called the condition evaluator
C17_Witness ==
    /\ Answered
    /\ Cardinality(user_ids) = 2
    /\ pc = "done"
    /\ calls # <<>>

(* C15: when store.are_guests, _filter_events_for_clients,                 *)
(* get_state_for_event or evaluator.matches raises, the invocation ends    *)
(* with the exception that was raised, as it was raised: it does nothing   *)
(* more, so it returns no map, asks no collaborator again and makes no     *)
(* further evaluator invocation.                                           *)
C15_FailurePropagates ==
    /\ [](past # <<>> =>
            /\ pc = "raised"
            /\ error = past[Len(past)].raised
            /\ Len(past) = 1)
    /\ [](\A name \in {"are_guests", "filter_events", "get_state"} :
            Count(io, name) <= 1)
    /\ [][pc # "raised"]_vars

\* evaluator.matches raised in the check of a user's rule after another
\* user had got an entry in the map
C15_Witness ==
    /\ pc = "raised"
    /\ past # <<>>
    /\ past[1].pc = "matches"
    /\ error = past[1].raised
    /\ actions_by_user # EmptyDict
    /\ uid \notin DOMAIN actions_by_user

\* store.get_state_for_event raised
C15_WitnessYield ==
    /\ pc = "raised"
    /\ past # <<>>
    /\ past[1].pc = "get_state"
    /\ error = past[1].raised

====
